---- MODULE Spec2Model ----
(***************************************************************************)
(* Model of the meeting-summary server: the summary routes of              *)
(* server/routes.ts over the storage layer of server/storage.ts, the       *)
(* table definitions of the shared schema and the generator wrapper of     *)
(* server/services/gemini.ts (Spec); the storage interface with            *)
(* deleteSummary (StorageSpec); the auth routes (AuthSpec); the upload     *)
(* route with processFile of server/services/fileProcessor.ts              *)
(* (UploadSpec); the handlers of the :id routes interleaved at their       *)
(* awaits (ConcSpec); the register handler interleaved between its lookup  *)
(* and its insert (RaceSpec); the summary editor of the client with the    *)
(* useAutosave hook (ClientSpec).                                          *)
(*                                                                         *)
(* Text that is counted or measured (summaryContent, generator output) is  *)
(* a sequence of one-character strings; opaque text (title, prompt, ...)   *)
(* is a TLA+ string.  A handler is an operator from (store, request,       *)
(* outcome of the external collaborator, clock) to (store, response,       *)
(* collaborators called); the actions apply the handlers to the state.     *)
(***************************************************************************)
EXTENDS Integers, Sequences, FiniteSets, TLC

\* ------------------------------------------------------------------------
\* Bounds of the model
\* ------------------------------------------------------------------------
MaxSummaries == 2
MaxWrites == 3
MaxTime == 1
MaxCore == 1
MaxUploads == 2
MaxRequests == 2
MaxEdits == 3

\* ------------------------------------------------------------------------
\* Program constants
\* ------------------------------------------------------------------------
\* gemini.ts:47  if (summary.length < 50)
MinViableLength == 50

\* part_001:197  useAutosave(content, saveContent, 2000): the delay, in seconds
AutosaveDelay == 2

Users == {"u1", "u2"}
Statuses == {"draft", "approved", "sent"}

\* ------------------------------------------------------------------------
\* Text
\* ------------------------------------------------------------------------
Chars == {"a", " ", "\n"}
Whitespace == {" ", "\n", "\t"}

RECURSIVE Texts(_)
Texts(n) ==
  IF n = 0 THEN {<<>>}
  ELSE LET shorter == Texts(n - 1)
       IN  shorter \cup {Append(t, c) : t \in {s \in shorter : Len(s) = n - 1}, c \in Chars}

Cores == Texts(MaxCore)

\* a word of MinViableLength characters: appended to a core it gives a
\* generator output that passes the length check
Filler == [i \in 1..MinViableLength |-> "a"]

\* gemini.ts:44  the text used when response.text is empty
FallbackText ==
  <<"F","a","i","l","e","d"," ","t","o"," ","g","e","n","e","r","a","t","e",
    " ","s","u","m","m","a","r","y">>

\* String.prototype.split(sep) for a one-character separator: the segments
\* between consecutive separators, empty segments included
SplitChar(s, sep) ==
  LET cuts == {0} \cup {i \in 1..Len(s) : s[i] = sep}
      Nth(k) == CHOOSE b \in cuts : Cardinality({x \in cuts : x < b}) = k - 1
      End(b) == IF \E x \in cuts : x > b
                THEN (CHOOSE x \in cuts : x > b /\ \A y \in cuts : y > b => x <= y) - 1
                ELSE Len(s)
  IN  [k \in 1..Cardinality(cuts) |-> SubSeq(s, Nth(k) + 1, End(Nth(k)))]

\* the number of whitespace-separated non-empty tokens of s: the number of
\* positions where a maximal run of non-whitespace characters begins
TokenCount(s) ==
  Cardinality({i \in 1..Len(s) :
                 /\ s[i] \notin Whitespace
                 /\ (i = 1 \/ s[i - 1] \in Whitespace)})

\* ------------------------------------------------------------------------
\* Request bodies.  A body is [has, bad, val]: the keys the JSON object
\* carries, the keys among them whose value has the wrong JSON type, and
\* the (well-typed) values.
\* ------------------------------------------------------------------------
Body(has, bad, val) == [has |-> has, bad |-> bad, val |-> val]

\* parse outcome of a zod object schema with the given required and optional
\* keys: a ZodError, or the data with the unknown keys stripped
ZodParse(body, required, optional) ==
  IF ~(required \subseteq body.has) \/ body.bad \cap (required \cup optional) # {}
  THEN [ok |-> FALSE, has |-> {}, val |-> body.val]
  ELSE [ok |-> TRUE, has |-> body.has \cap (required \cup optional), val |-> body.val]

\* shared schema: insertSummarySchema = createInsertSchema(summaries) without
\* id, userId, createdAt, updatedAt.  Columns that are notNull and have no
\* default are required; status and autoSaved have defaults.
InsertSummaryRequired ==
  {"title", "originalContent", "prompt", "tone", "summaryContent", "wordCount"}
InsertSummaryOptional == {"status", "autoSaved"}
insertSummarySchema(body) == ZodParse(body, InsertSummaryRequired, InsertSummaryOptional)

PatchKeys == {"summaryContent", "status", "autoSaved", "wordCount"}

\* a schema that lets unknown keys through (.passthrough())
PatchSchemaPassthrough(body) ==
  IF body.bad \cap PatchKeys # {}
  THEN [ok |-> FALSE, has |-> {}, val |-> body.val]
  ELSE [ok |-> TRUE, has |-> body.has, val |-> body.val]

\* routes.ts:202-207  the object schema of PATCH /api/summaries/:id
PatchSchema(body) == ZodParse(body, {}, PatchKeys)

\* routes.ts:284-289  the object schema of POST /api/summaries/:id/email
Formats == {"html", "pdf", "both"}
EmailShaped == {"a@b.co", "c@d.org"}
EmailSchema(body) ==
  LET p == ZodParse(body, {"recipients", "subject", "format"}, {"ccSelf"})
  IN  IF /\ p.ok
         /\ \A i \in 1..Len(body.val.recipients) : body.val.recipients[i] \in EmailShaped
         /\ body.val.format \in Formats
      THEN p
      ELSE [p EXCEPT !.ok = FALSE, !.has = {}]

\* shared schema: insertUserSchema = createInsertSchema(users).pick(email,
\* password, fullName); the three are text columns, so any string passes
insertUserSchema(body) == ZodParse(body, {"email", "password", "fullName"}, {})

\* routes.ts:67-70  the object schema of POST /api/auth/login
LoginSchema(body) ==
  LET p == ZodParse(body, {"email", "password"}, {})
  IN  IF p.ok /\ body.val.email \in EmailShaped /\ body.val.password # ""
      THEN p
      ELSE [p EXCEPT !.ok = FALSE, !.has = {}]

\* routes.ts:123-125  the object schema of PATCH /api/auth/theme
Themes == {"light", "dark"}
ThemeSchema(body) ==
  LET p == ZodParse(body, {"theme"}, {})
  IN  IF p.ok /\ body.val.theme \in Themes
      THEN p
      ELSE [p EXCEPT !.ok = FALSE, !.has = {}]

\* ------------------------------------------------------------------------
\* Storage (server/storage.ts) over the summaries and email_logs tables.
\* S is the summaries table, a function from the ids in use to rows; L is
\* the email_logs table, a sequence of rows.
\* ------------------------------------------------------------------------
Columns ==
  {"id", "userId", "title", "originalContent", "prompt", "tone", "summaryContent",
   "wordCount", "status", "createdAt", "updatedAt", "autoSaved"}

\* storage.ts:50-56 with the column defaults of the summaries table
createSummary(S, id, data, userId, t) ==
  LET row == [id |-> id,
              userId |-> userId,
              title |-> data.val.title,
              originalContent |-> data.val.originalContent,
              prompt |-> data.val.prompt,
              tone |-> data.val.tone,
              summaryContent |-> data.val.summaryContent,
              wordCount |-> data.val.wordCount,
              status |-> IF "status" \in data.has THEN data.val.status ELSE "draft",
              createdAt |-> t,
              updatedAt |-> t,
              autoSaved |-> IF "autoSaved" \in data.has THEN data.val.autoSaved ELSE FALSE]
  IN  [i \in DOMAIN S \cup {id} |-> IF i = id THEN row ELSE S[i]]

\* the update statement without its where clause
updateSummaryAllRows(S, id, updates, t) ==
  [i \in DOMAIN S |->
     [c \in Columns |->
        IF c = "updatedAt" THEN t
        ELSE IF c \in updates.has THEN updates.val[c]
        ELSE S[i][c]]]

\* storage.ts:58-65  .set({ ...updates, updatedAt: new Date() })
updateSummary(S, id, updates, t) ==
  [S EXCEPT ![id] =
     [c \in Columns |->
        IF c = "updatedAt" THEN t
        ELSE IF c \in updates.has THEN updates.val[c]
        ELSE S[id][c]]]

\* storage.ts:67-70
getSummary(S, id) == IF id \in DOMAIN S THEN <<S[id]>> ELSE <<>>

\* the same query with asc(summaries.updatedAt)
getUserSummariesAscending(S, userId) ==
  LET own == {i \in DOMAIN S : S[i].userId = userId}
      n == Cardinality(own)
  IN  {ord \in [1..n -> own] :
         /\ \A i, j \in 1..n : i # j => ord[i] # ord[j]
         /\ \A i, j \in 1..n : i < j => S[ord[i]].updatedAt <= S[ord[j]].updatedAt}

\* storage.ts:72-78  the rows of the user ordered by updatedAt descending;
\* rows with equal updatedAt come in any order, so this is the set of the
\* orders the query may return (as sequences of ids)
getUserSummaries(S, userId) ==
  LET own == {i \in DOMAIN S : S[i].userId = userId}
      n == Cardinality(own)
  IN  {ord \in [1..n -> own] :
         /\ \A i, j \in 1..n : i # j => ord[i] # ord[j]
         /\ \A i, j \in 1..n : i < j => S[ord[i]].updatedAt >= S[ord[j]].updatedAt}

\* storage.ts:84-90
createEmailLog(L, log, t) ==
  Append(L, [summaryId |-> log.summaryId, recipients |-> log.recipients,
             subject |-> log.subject, format |-> log.format,
             status |-> log.status, sentAt |-> t])

\* the delete statement without the referential action on email_logs
deleteSummaryKeepLogs(S, L, id) ==
  [summaries |-> [i \in DOMAIN S \ {id} |-> S[i]], emailLogs |-> L]

\* storage.ts:80-82  db.delete(summaries).where(eq(summaries.id, id)); the
\* rows of email_logs that reference the summary go with it in the same
\* statement (part_000:33  references(() => summaries.id, onDelete cascade))
deleteSummary(S, L, id) ==
  [summaries |-> [i \in DOMAIN S \ {id} |-> S[i]],
   emailLogs |-> SelectSeq(L, LAMBDA log : log.summaryId # id)]

\* storage.ts:30-33  U is the users table, a function from the ids in use
\* to rows; email is unique, so at most one row matches
getUserByEmail(U, email) ==
  IF \E i \in DOMAIN U : U[i].email = email
  THEN <<U[CHOOSE i \in DOMAIN U : U[i].email = email]>>
  ELSE <<>>

\* storage.ts:35-41 with the column defaults of the users table
createUser(U, id, insertUser, t) ==
  LET row == [id |-> id, email |-> insertUser.email, password |-> insertUser.password,
              fullName |-> insertUser.fullName, theme |-> "light", createdAt |-> t]
  IN  [i \in DOMAIN U \cup {id} |-> IF i = id THEN row ELSE U[i]]

\* storage.ts:43-48
updateUserTheme(U, id, theme) ==
  [i \in DOMAIN U |-> IF i = id THEN [U[i] EXCEPT !.theme = theme] ELSE U[i]]

\* ------------------------------------------------------------------------
\* Credential service (server/services/auth).  A hash is a value that is
\* not the password and that only the password verifies; a token names the
\* user it was issued for.
\* ------------------------------------------------------------------------
hashPassword(password) == <<"hash", password>>
verifyPassword(password, hash) == hash = hashPassword(password)
generateToken(userId) == <<"token", userId>>

\* ------------------------------------------------------------------------
\* Generator (server/services/gemini.ts).  ext is what the provider does:
\* it throws, or it answers with a text (empty when response.text is unset).
\* ------------------------------------------------------------------------
\* the generator wrapper without its length check
generateSummaryUnchecked(ext) ==
  IF ext.throws THEN [ok |-> FALSE, text |-> <<>>]
  ELSE [ok |-> TRUE, text |-> IF ext.text = <<>> THEN FallbackText ELSE ext.text]

\* gemini.ts:39-54
generateSummary(ext) ==
  IF ext.throws THEN [ok |-> FALSE, text |-> <<>>]
  ELSE LET summary == IF ext.text = <<>> THEN FallbackText ELSE ext.text
       IN  IF Len(summary) < MinViableLength
           THEN [ok |-> FALSE, text |-> <<>>]
           ELSE [ok |-> TRUE, text |-> summary]

\* ------------------------------------------------------------------------
\* Route handlers (server/routes.ts).  Each gives the outcome of one
\* request: the tables after it, the response, and the external
\* collaborators it called.
\* ------------------------------------------------------------------------
Outcome(S, L, status, message, data, calls) ==
  [summaries |-> S, emailLogs |-> L,
   resp |-> [status |-> status, message |-> message, data |-> data],
   calls |-> calls]

\* the guard without the comparison of the owner
NotFoundExistenceOnly(S, id, caller) == getSummary(S, id) = <<>>

\* the guard every :id route starts with
\* if (!summary || summary.userId !== req.userId!)
NotFound(S, id, caller) ==
  LET summary == getSummary(S, id)
  IN  summary = <<>> \/ summary[1].userId # caller

\* the handler spreading the body over the caller's id
PostSummariesBodyOwner(S, L, caller, body, id, t) ==
  LET data == insertSummarySchema(body)
  IN  IF ~data.ok THEN Outcome(S, L, 400, "Validation error", <<>>, {})
      ELSE LET S2 == createSummary(S, id, data,
                                   IF "userId" \in body.has THEN body.val.userId ELSE caller, t)
           IN  Outcome(S2, L, 200, "", <<S2[id]>>, {})

\* routes.ts:154-171  POST /api/summaries; id is the id the table generates
PostSummaries(S, L, caller, body, id, t) ==
  LET data == insertSummarySchema(body)
  IN  IF ~data.ok THEN Outcome(S, L, 400, "Validation error", <<>>, {})
      ELSE LET S2 == createSummary(S, id, data, caller, t)
           IN  Outcome(S2, L, 200, "", <<S2[id]>>, {})

\* routes.ts:173-180  GET /api/summaries; ord is the order the query returned
GetSummaries(S, L, caller, ord) ==
  Outcome(S, L, 200, "", [i \in 1..Len(ord) |-> S[ord[i]]], {})

\* routes.ts:182-193  GET /api/summaries/:id
GetSummaryById(S, L, caller, id) ==
  IF NotFound(S, id, caller) THEN Outcome(S, L, 404, "Summary not found", <<>>, {})
  ELSE Outcome(S, L, 200, "", getSummary(S, id), {})

\* the handler answering 403 when the summary exists and is not the caller's
PatchSummaryForbidden(S, L, caller, id, body, t) ==
  IF getSummary(S, id) = <<>> THEN Outcome(S, L, 404, "Summary not found", <<>>, {})
  ELSE IF S[id].userId # caller THEN Outcome(S, L, 403, "Forbidden", <<>>, {})
  ELSE LET updates == PatchSchema(body)
       IN  IF ~updates.ok THEN Outcome(S, L, 400, "Validation error", <<>>, {})
           ELSE LET S2 == updateSummary(S, id, updates, t)
                IN  Outcome(S2, L, 200, "", <<S2[id]>>, {})

\* routes.ts:195-218  PATCH /api/summaries/:id
PatchSummary(S, L, caller, id, body, t) ==
  IF NotFound(S, id, caller) THEN Outcome(S, L, 404, "Summary not found", <<>>, {})
  ELSE LET updates == PatchSchema(body)
       IN  IF ~updates.ok THEN Outcome(S, L, 400, "Validation error", <<>>, {})
           ELSE LET S2 == updateSummary(S, id, updates, t)
                IN  Outcome(S2, L, 200, "", <<S2[id]>>, {})

\* the handler writing status "draft" along with the generated text
PostGenerateAsDraft(S, L, caller, id, ext, t) ==
  IF NotFound(S, id, caller) THEN Outcome(S, L, 404, "Summary not found", <<>>, {})
  ELSE LET ai == generateSummary(ext)
       IN  IF ~ai.ok
           THEN Outcome(S, L, 500, "Failed to generate summary", <<>>, {"generator"})
           ELSE LET updates == [has |-> {"summaryContent", "wordCount", "status"},
                                val |-> [summaryContent |-> ai.text,
                                         wordCount |-> Len(SplitChar(ai.text, " ")),
                                         status |-> "draft"]]
                    S2 == updateSummary(S, id, updates, t)
                IN  Outcome(S2, L, 200, "", <<S2[id]>>, {"generator"})

\* routes.ts:221-239  POST /api/summaries/:id/generate
PostGenerate(S, L, caller, id, ext, t) ==
  IF NotFound(S, id, caller) THEN Outcome(S, L, 404, "Summary not found", <<>>, {})
  ELSE LET ai == generateSummary(ext)
       IN  IF ~ai.ok
           THEN Outcome(S, L, 500, "Failed to generate summary", <<>>, {"generator"})
           ELSE LET aiSummary == ai.text
                    updates == [has |-> {"summaryContent", "wordCount"},
                                val |-> [summaryContent |-> aiSummary,
                                         wordCount |-> Len(SplitChar(aiSummary, " "))]]
                    S2 == updateSummary(S, id, updates, t)
                IN  Outcome(S2, L, 200, "", <<S2[id]>>, {"generator"})

\* routes.ts:242-257  GET /api/summaries/:id/export/pdf; ext is what the
\* renderer does
ExportPdf(S, L, caller, id, ext) ==
  IF NotFound(S, id, caller) THEN Outcome(S, L, 404, "Summary not found", <<>>, {})
  ELSE IF ext.throws THEN Outcome(S, L, 500, "Failed to generate PDF", <<>>, {"renderer"})
  ELSE Outcome(S, L, 200, "application/pdf", <<>>, {"renderer"})

\* routes.ts:259-274  GET /api/summaries/:id/export/docx
ExportDocx(S, L, caller, id, ext) ==
  IF NotFound(S, id, caller) THEN Outcome(S, L, 404, "Summary not found", <<>>, {})
  ELSE IF ext.throws THEN Outcome(S, L, 500, "Failed to generate DOCX", <<>>, {"renderer"})
  ELSE Outcome(S, L, 200, "application/docx", <<>>, {"renderer"})

\* the handler writing one log for each recipient
PostEmailLogPerRecipient(S, L, caller, id, body, ext, t) ==
  IF NotFound(S, id, caller) THEN Outcome(S, L, 404, "Summary not found", <<>>, {})
  ELSE IF ~EmailSchema(body).ok \/ ext.throws
  THEN Outcome(S, L, 500, "Failed to send email", <<>>,
               IF EmailSchema(body).ok THEN {"dispatcher"} ELSE {})
  ELSE LET rows == [i \in 1..Len(body.val.recipients) |->
                      [summaryId |-> S[id].id, recipients |-> <<body.val.recipients[i]>>,
                       subject |-> body.val.subject, format |-> body.val.format,
                       status |-> "sent", sentAt |-> t]]
       IN  Outcome(S, L \o rows, 200, "Email sent successfully", <<>>, {"dispatcher"})

\* the handler keeping a log of the attempts that failed
PostEmailLogsFailure(S, L, caller, id, body, ext, t) ==
  IF NotFound(S, id, caller) THEN Outcome(S, L, 404, "Summary not found", <<>>, {})
  ELSE IF ~EmailSchema(body).ok THEN Outcome(S, L, 500, "Failed to send email", <<>>, {})
  ELSE LET L2 == createEmailLog(L, [summaryId |-> S[id].id,
                                    recipients |-> body.val.recipients,
                                    subject |-> body.val.subject,
                                    format |-> body.val.format,
                                    status |-> IF ext.throws THEN "failed" ELSE "sent"], t)
       IN  IF ext.throws
           THEN Outcome(S, L2, 500, "Failed to send email", <<>>, {"dispatcher"})
           ELSE Outcome(S, L2, 200, "Email sent successfully", <<>>, {"dispatcher"})

\* the handler marking the summary as sent once the mail is out
PostEmailMarksSent(S, L, caller, id, body, ext, t) ==
  IF NotFound(S, id, caller) THEN Outcome(S, L, 404, "Summary not found", <<>>, {})
  ELSE IF ~EmailSchema(body).ok THEN Outcome(S, L, 500, "Failed to send email", <<>>, {})
  ELSE IF ext.throws THEN Outcome(S, L, 500, "Failed to send email", <<>>, {"dispatcher"})
  ELSE LET L2 == createEmailLog(L, [summaryId |-> S[id].id,
                                    recipients |-> body.val.recipients,
                                    subject |-> body.val.subject,
                                    format |-> body.val.format,
                                    status |-> "sent"], t)
           S2 == updateSummary(S, id, [has |-> {"status"}, val |-> [status |-> "sent"]], t)
       IN  Outcome(S2, L2, 200, "Email sent successfully", <<>>, {"dispatcher"})

\* routes.ts:277-308  POST /api/summaries/:id/email; ext is what the
\* dispatcher does.  A ZodError lands in the only catch clause: 500.
PostEmail(S, L, caller, id, body, ext, t) ==
  IF NotFound(S, id, caller) THEN Outcome(S, L, 404, "Summary not found", <<>>, {})
  ELSE LET parsed == EmailSchema(body)
       IN  IF ~parsed.ok THEN Outcome(S, L, 500, "Failed to send email", <<>>, {})
           ELSE IF ext.throws
           THEN Outcome(S, L, 500, "Failed to send email", <<>>, {"dispatcher"})
           ELSE LET L2 == createEmailLog(L, [summaryId |-> S[id].id,
                                             recipients |-> body.val.recipients,
                                             subject |-> body.val.subject,
                                             format |-> body.val.format,
                                             status |-> "sent"], t)
                IN  Outcome(S, L2, 200, "Email sent successfully", <<>>, {"dispatcher"})

\* outcome of an auth route: the users table after it and the response
AuthOutcome(U, status, message, data) ==
  [users |-> U, resp |-> [status |-> status, message |-> message, data |-> data],
   calls |-> {}]

\* what the auth routes return of a user row, with the token
Session(user, token) ==
  [user |-> [id |-> user.id, email |-> user.email, fullName |-> user.fullName,
             theme |-> user.theme],
   token |-> token]

\* the handler without the lookup of the email
PostRegisterUnchecked(U, body, id, t) ==
  LET validatedData == insertUserSchema(body)
  IN  IF ~validatedData.ok THEN AuthOutcome(U, 400, "Validation error", <<>>)
      ELSE LET U2 == createUser(U, id, [email |-> body.val.email,
                                        password |-> hashPassword(body.val.password),
                                        fullName |-> body.val.fullName], t)
           IN  AuthOutcome(U2, 200, "", <<Session(U2[id], generateToken(id))>>)

\* routes.ts:27-63  POST /api/auth/register; id is the id the table
\* generates
PostRegister(U, body, id, t) ==
  LET validatedData == insertUserSchema(body)
  IN  IF ~validatedData.ok THEN AuthOutcome(U, 400, "Validation error", <<>>)
      ELSE IF getUserByEmail(U, body.val.email) # <<>>
      THEN AuthOutcome(U, 409, "User already exists", <<>>)
      ELSE LET U2 == createUser(U, id, [email |-> body.val.email,
                                        password |-> hashPassword(body.val.password),
                                        fullName |-> body.val.fullName], t)
           IN  AuthOutcome(U2, 200, "", <<Session(U2[id], generateToken(id))>>)

\* routes.ts:65-103  POST /api/auth/login
PostLogin(U, body) ==
  IF ~LoginSchema(body).ok THEN AuthOutcome(U, 400, "Validation error", <<>>)
  ELSE LET found == getUserByEmail(U, body.val.email)
       IN  IF found = <<>> THEN AuthOutcome(U, 401, "Invalid credentials", <<>>)
           ELSE IF ~verifyPassword(body.val.password, found[1].password)
           THEN AuthOutcome(U, 401, "Invalid credentials", <<>>)
           ELSE AuthOutcome(U, 200, "", <<Session(found[1], generateToken(found[1].id))>>)

\* routes.ts:121-132  PATCH /api/auth/theme
PatchTheme(U, caller, body) ==
  IF ~ThemeSchema(body).ok THEN AuthOutcome(U, 400, "Invalid theme value", <<>>)
  ELSE AuthOutcome(updateUserTheme(U, caller, body.val.theme), 200, "", <<>>)

\* ------------------------------------------------------------------------
\* The :id routes await by await.  r is a request in flight: what it asked
\* for, the summary its getSummary returned (snapshot), the generated text,
\* where its handler stands (pc), its response, and the numbers of the
\* storage writes it read after (readAt) and made (writeNo).
\* ------------------------------------------------------------------------
Pending(route, caller, id, body) ==
  [route |-> route, caller |-> caller, id |-> id, body |-> body, pc |-> "read",
   snapshot |-> <<>>, text |-> <<>>,
   resp |-> [status |-> 0, message |-> "", data |-> <<>>],
   readAt |-> 0, writeNo |-> 0]

Done(r, status, message, data) ==
  [r EXCEPT !.pc = "done",
            !.resp = [status |-> status, message |-> message, data |-> data]]

\* routes.ts:197-207, 223-228, 244-248, 261-265, 279-291  await
\* storage.getSummary, the guard and the parse of the body; w is the number
\* of storage writes made so far
ReadStep(S, r, w) ==
  LET r1 == [r EXCEPT !.snapshot = getSummary(S, r.id), !.readAt = w]
  IN  IF NotFound(S, r.id, r.caller) THEN Done(r1, 404, "Summary not found", <<>>)
      ELSE CASE r.route = "update" ->
                  IF ~PatchSchema(r.body).ok THEN Done(r1, 400, "Validation error", <<>>)
                  ELSE [r1 EXCEPT !.pc = "write"]
             [] r.route = "generate" -> [r1 EXCEPT !.pc = "generate"]
             [] r.route \in {"exportPdf", "exportDocx"} -> [r1 EXCEPT !.pc = "render"]
             [] r.route = "share" ->
                  IF ~EmailSchema(r.body).ok THEN Done(r1, 500, "Failed to send email", <<>>)
                  ELSE [r1 EXCEPT !.pc = "send"]

\* routes.ts:230, 250, 267, 293  the awaited generator, renderer or
\* dispatcher has answered (x)
CollaboratorStep(r, x) ==
  CASE r.pc = "generate" ->
         LET ai == generateSummary(x)
         IN  IF ~ai.ok THEN Done(r, 500, "Failed to generate summary", <<>>)
             ELSE [r EXCEPT !.text = ai.text, !.pc = "write"]
    [] r.pc = "render" ->
         IF x.throws
         THEN Done(r, 500, IF r.route = "exportPdf" THEN "Failed to generate PDF"
                           ELSE "Failed to generate DOCX", <<>>)
         ELSE Done(r, 200, IF r.route = "exportPdf" THEN "application/pdf"
                           ELSE "application/docx", <<>>)
    [] r.pc = "send" ->
         IF x.throws THEN Done(r, 500, "Failed to send email", <<>>)
         ELSE [r EXCEPT !.pc = "log"]

\* the handler of Generate resetting status and autoSaved with the text
UpdatesResettingFlags(r) ==
  IF r.route = "update" THEN PatchSchema(r.body)
  ELSE [has |-> {"summaryContent", "wordCount", "status", "autoSaved"},
        val |-> [summaryContent |-> r.text,
                 wordCount |-> Len(SplitChar(r.text, " ")),
                 status |-> "draft", autoSaved |-> FALSE]]

\* routes.ts:209, 232-235  the updates the handler hands to updateSummary
Updates(r) ==
  IF r.route = "update" THEN PatchSchema(r.body)
  ELSE [has |-> {"summaryContent", "wordCount"},
        val |-> [summaryContent |-> r.text,
                 wordCount |-> Len(SplitChar(r.text, " "))]]

\* the write saving the row as the handler read it, with the updates on it
WriteStepWholeRow(S, r, t) ==
  [S EXCEPT ![r.id] =
     [c \in Columns |->
        IF c = "updatedAt" THEN t
        ELSE IF c \in Updates(r).has THEN Updates(r).val[c]
        ELSE r.snapshot[1][c]]]

\* routes.ts:209, 232-235  await storage.updateSummary(req.params.id, ...)
WriteStep(S, r, t) == updateSummary(S, r.id, Updates(r), t)

\* routes.ts:296-302  await storage.createEmailLog(...)
LogStep(L, r, t) ==
  createEmailLog(L, [summaryId |-> r.snapshot[1].id,
                     recipients |-> r.body.val.recipients,
                     subject |-> r.body.val.subject,
                     format |-> r.body.val.format,
                     status |-> "sent"], t)

\* routes.ts:29-35  the register handler up to the answer of its lookup: the
\* parse of the body, await storage.getUserByEmail and the 409
LookupStep(U, r) ==
  IF ~insertUserSchema(r.body).ok THEN Done(r, 400, "Validation error", <<>>)
  ELSE IF getUserByEmail(U, r.body.val.email) # <<>>
  THEN Done(r, 409, "User already exists", <<>>)
  ELSE [r EXCEPT !.pc = "insert"]

\* a users table whose email column has no unique index
UniqueViolationNever(U, email) == FALSE

\* part_000:9  email: text("email").notNull().unique(): the insert of a row
\* whose email is in the table fails
UniqueViolation(U, email) == \E i \in DOMAIN U : U[i].email = email

\* routes.ts:38-62  await hashPassword, await storage.createUser, the token
\* and the response; a failed insert is caught and answered 500.  The
\* result is the users table and the request after the step.
InsertStep(U, r, id, t) ==
  IF UniqueViolation(U, r.body.val.email)
  THEN [users |-> U, req |-> Done(r, 500, "Internal server error", <<>>)]
  ELSE LET U2 == createUser(U, id, [email |-> r.body.val.email,
                                    password |-> hashPassword(r.body.val.password),
                                    fullName |-> r.body.val.fullName], t)
       IN  [users |-> U2,
            req |-> Done(r, 200, "", <<Session(U2[id], generateToken(id))>>)]

\* ------------------------------------------------------------------------
\* File processing (server/services/fileProcessor.ts).  f is one upload:
\* the extension of its temporary file, whether the file is on disk, how
\* far processFile has come, the text or the error it ends with, and
\* whether the removal of the file failed (and was logged).
\* ------------------------------------------------------------------------
Extensions == {".txt", ".pdf", ".docx"}

\* String.prototype.trim
Trim(s) ==
  LET keep == {i \in 1..Len(s) : s[i] \notin Whitespace}
  IN  IF keep = {} THEN <<>>
      ELSE SubSeq(s, CHOOSE i \in keep : \A j \in keep : i <= j,
                     CHOOSE i \in keep : \A j \in keep : i >= j)

\* routes.ts:135-141  an upload as the route sees it: a temporary file
\* with this extension in its path is on disk and processFile is about to
\* be called with the path, or no file was stored
StoredFile(ext) ==
  [stored |-> TRUE, ext |-> ext, exists |-> TRUE, pc |-> "start",
   text |-> <<>>, error |-> "", cleanupFailed |-> FALSE]
NoFile ==
  [stored |-> FALSE, ext |-> "", exists |-> FALSE, pc |-> "responded",
   text |-> <<>>, error |-> "No file uploaded", cleanupFailed |-> FALSE]

\* routes.ts:14-22  the multer upload.  name is the original name of the
\* file as its segments between dots ("Report.PDF" is <<"Report", "PDF">>).
AllowedTypes == {".txt", ".pdf", ".docx"}

\* String.prototype.toLowerCase on the segments the model uses
ToLowerCase(seg) ==
  CASE seg = "PDF" -> "pdf"
    [] seg = "Txt" -> "txt"
    [] seg = "README" -> "readme"
    [] seg = "Report" -> "report"
    [] OTHER -> seg

\* routes.ts:17-21  '.' + file.originalname.split('.').pop()?.toLowerCase()
fileFilter(name) == ("." \o ToLowerCase(name[Len(name)])) \in AllowedTypes

\* routes.ts:15  dest: 'uploads/' -- multer stores an accepted file under a
\* generated name of hexadecimal digits, without the extension of the
\* original name; this is path.extname(req.file.path)
TempPathExtension == ""

\* the upload with the original name it came with
Named(f, name) ==
  [k \in DOMAIN f \cup {"name"} |-> IF k = "name" THEN name ELSE f[k]]

\* routes.ts:14-22, 135-141  what the route gets from multer for a file
\* with this original name
MulterUpload(name) ==
  IF fileFilter(name)
  THEN Named(StoredFile(TempPathExtension), name)
  ELSE Named(NoFile, name)

\* fileProcessor.ts:60-62  every error of the try block is thrown again and
\* the finally block is next
Fail(f, message) == [f EXCEPT !.error = message, !.pc = "finally"]

\* fileProcessor.ts:13-22, 50-52  the existence check and the choice of the
\* extractor by the extension
Begin(f) ==
  IF ~f.exists THEN Fail(f, "File not found")
  ELSE IF f.ext \notin Extensions THEN Fail(f, "Unsupported file type")
  ELSE [f EXCEPT !.pc = "extract"]

\* fileProcessor.ts:23-59  the extractor has answered (x): its error, or the
\* check of the text and the trimmed text
Extract(f, x) ==
  IF x.throws
  THEN Fail(f, IF f.ext = ".pdf" THEN "PDF processing failed"
               ELSE IF f.ext = ".docx" THEN "DOCX processing failed"
               ELSE "read failed")
  ELSE IF Len(Trim(x.text)) = 0 THEN Fail(f, "No text content extracted from file")
  ELSE [f EXCEPT !.text = Trim(x.text), !.pc = "finally"]

\* the removal at the end of the try block instead of in a finally block
FinallyOnSuccessOnly(f, unlinkThrows) ==
  LET g == [f EXCEPT !.pc = IF f.error = "" THEN "returned" ELSE "thrown"]
  IN  IF f.error # "" \/ ~f.exists THEN g
      ELSE IF unlinkThrows THEN [g EXCEPT !.cleanupFailed = TRUE]
      ELSE [g EXCEPT !.exists = FALSE]

\* fileProcessor.ts:62-71  the finally block: the file is removed if it is
\* there; an error of the removal is logged and dropped.  Then processFile
\* returns its text or throws its error.
Finally(f, unlinkThrows) ==
  LET g == [f EXCEPT !.pc = IF f.error = "" THEN "returned" ELSE "thrown"]
  IN  IF ~f.exists THEN g
      ELSE IF unlinkThrows THEN [g EXCEPT !.cleanupFailed = TRUE]
      ELSE [g EXCEPT !.exists = FALSE]

\* routes.ts:141-150  the route answers with the text or with 500
Respond(f) == [f EXCEPT !.pc = "responded"]

\* storage.deleteSummary(id) called on behalf of caller.  The method takes
\* the id alone and no route of routes.ts reaches it, so there is no
\* response: status 0.  calls records the referential action when it
\* removed rows of email_logs.
DeleteSummary(S, L, caller, id) ==
  LET d == deleteSummary(S, L, id)
  IN  Outcome(d.summaries, d.emailLogs, 0, "", <<>>,
              IF d.emailLogs # L THEN {"cascade"} ELSE {})

\* ------------------------------------------------------------------------
\* The summary editor of the client (part_001) and its autosave hook
\* (client/src/hooks/useAutosave.ts).  e is the editor: the content state,
\* the identity of the saveContent callback of the last render, the refs of
\* the hook, the timeouts it has set that have neither fired nor been
\* cleared, and whether the last run of the effect returned a cleanup.
\* ------------------------------------------------------------------------
\* String.prototype.split(/\s+/): the segments between the maximal runs of
\* whitespace, the empty ones at either end included
SplitWhitespace(s) ==
  LET IsWs(i) == s[i] \in Whitespace
      runStarts == {i \in 1..Len(s) : IsWs(i) /\ (i = 1 \/ ~IsWs(i - 1))}
      runEnds == {i \in 1..Len(s) : IsWs(i) /\ (i = Len(s) \/ ~IsWs(i + 1))}
      n == Cardinality(runStarts)
      NthOf(set, k) == CHOOSE b \in set : Cardinality({x \in set : x < b}) = k - 1
  IN  [k \in 1..(n + 1) |->
         SubSeq(s, IF k = 1 THEN 1 ELSE NthOf(runEnds, k - 1) + 1,
                   IF k = n + 1 THEN Len(s) ELSE NthOf(runStarts, k) - 1)]

\* the save handler without its check of the trimmed content
saveContentUnguarded(contentToSave) ==
  <<[summaryContent |-> contentToSave,
     wordCount |-> Len(SelectSeq(SplitWhitespace(contentToSave), LAMBDA word : Len(word) > 0)),
     autoSaved |-> TRUE]>>

\* part_001:176-194  saveContent: the PATCH bodies it sends (none or one)
saveContent(contentToSave) ==
  IF Trim(contentToSave) = <<>> THEN <<>>
  ELSE <<[summaryContent |-> contentToSave,
          wordCount |-> Len(SelectSeq(SplitWhitespace(contentToSave),
                                      LAMBDA word : Len(word) > 0)),
          autoSaved |-> TRUE]>>

\* useAutosave.ts:48-52  the cleanup the effect returns
Cleanup(e) ==
  IF e.timeoutRef # 0
  THEN [e EXCEPT !.timers = {t \in @ : t.id # e.timeoutRef}]
  ELSE e

\* the effect setting the timeout with the data of the render before
RunEffectPreviousData(e, data, onSave) ==
  IF e.isFirstRun
  THEN [e EXCEPT !.isFirstRun = FALSE, !.dataRef = data, !.cleanup = FALSE]
  ELSE IF e.dataRef = data THEN [e EXCEPT !.cleanup = FALSE]
  ELSE [e EXCEPT !.dataRef = data,
                 !.timers = {t \in @ : t.id # e.timeoutRef}
                              \cup {[id |-> e.edits, data |-> e.dataRef, onSave |-> onSave,
                                     left |-> AutosaveDelay]},
                 !.timeoutRef = e.edits,
                 !.cleanup = TRUE]

\* useAutosave.ts:14-46  the effect; the timeout it sets is numbered by the
\* change of content it answers to and keeps the data and the onSave of
\* this render
RunEffect(e, data, onSave) ==
  IF e.isFirstRun
  THEN [e EXCEPT !.isFirstRun = FALSE, !.dataRef = data, !.cleanup = FALSE]
  ELSE IF e.dataRef = data THEN [e EXCEPT !.cleanup = FALSE]
  ELSE [e EXCEPT !.dataRef = data,
                 !.timers = {t \in @ : t.id # e.timeoutRef}
                              \cup {[id |-> e.edits, data |-> data, onSave |-> onSave,
                                     left |-> AutosaveDelay]},
                 !.timeoutRef = e.edits,
                 !.cleanup = TRUE]

\* useAutosave.ts:53  a render in which one of [data, onSave, delay, toast]
\* differs from the render before: the cleanup of the last run of the
\* effect, if it returned one, and then the effect
Render(e, data, onSave) ==
  RunEffect(IF e.cleanup THEN Cleanup(e) ELSE e, data, onSave)

\* useAutosave.ts:35-45  a timeout fires: onSave(data) of the render that
\* set it, which is saveContent (part_001:197)
Fire(e, t) ==
  [e EXCEPT !.timers = @ \ {t},
            !.calls = Append(@, [id |-> t.id, data |-> t.data, onSave |-> t.onSave]),
            !.sent = @ \o saveContent(t.data)]

\* ------------------------------------------------------------------------
\* Requests the model sends
\* ------------------------------------------------------------------------
\* ids a request may name: the ids the table can hold and 0, never in use
Ids == 0..MaxSummaries

NoBody == Body({}, {}, <<>>)

CreateVal(sc, wc, st) ==
  [title |-> "Meeting", originalContent |-> "transcript", prompt |-> "instructions",
   tone |-> "casual", summaryContent |-> sc, wordCount |-> wc, status |-> st,
   autoSaved |-> TRUE, userId |-> "u2"]

\* the body the client sends (part_002:129-134), the same without status,
\* a body with content, count and status of the sender's choice and a
\* userId key, one without summaryContent and wordCount, one whose
\* wordCount is not a number, one whose transcript and prompt are ""
CreateBodies ==
  {Body(InsertSummaryRequired \cup {"status"}, {}, CreateVal(<<>>, 0, "draft")),
   Body(InsertSummaryRequired, {}, CreateVal(<<>>, 0, "draft")),
   Body(InsertSummaryRequired \cup {"status", "userId"}, {}, CreateVal(<<"a", " ", "a">>, 7, "sent")),
   Body({"title", "originalContent", "prompt", "tone"}, {}, CreateVal(<<>>, 0, "draft")),
   Body(InsertSummaryRequired, {"wordCount"}, CreateVal(<<>>, 0, "draft")),
   Body(InsertSummaryRequired, {},
        [CreateVal(<<>>, 0, "draft") EXCEPT !.originalContent = "", !.prompt = ""])}

PatchVal(st) ==
  [summaryContent |-> <<"a", " ", "a">>, status |-> st, autoSaved |-> TRUE,
   wordCount |-> 2, title |-> "Renamed", userId |-> "u2"]

\* the empty body, each of the four keys alone, the body of the editor's
\* autosave (part_001:184-188), all four keys, every status (one of them no
\* status of the schema comment), bodies with keys outside the four, and
\* bodies with a value of the wrong type
PatchBodies ==
  {Body(h, {}, PatchVal("approved")) :
     h \in {{}, {"summaryContent"}, {"status"}, {"autoSaved"}, {"wordCount"},
            {"summaryContent", "wordCount", "autoSaved"}, PatchKeys,
            {"title", "userId"}, {"title", "userId", "status"}}}
    \cup {Body({"status"}, {}, PatchVal(st)) : st \in {"draft", "sent", "archived"}}
    \cup {Body({"title", "autoSaved"}, {"title"}, PatchVal("approved")),
          Body({"wordCount", "autoSaved"}, {"wordCount"}, PatchVal("approved"))}

EmailVal(rcpts, fmt) ==
  [recipients |-> rcpts, subject |-> "Summary", format |-> fmt, ccSelf |-> TRUE]

EmailBodies ==
  {Body({"recipients", "subject", "format", "ccSelf"}, {}, EmailVal(<<"a@b.co", "c@d.org">>, "both")),
   Body({"recipients", "subject", "format"}, {}, EmailVal(<<>>, "pdf")),
   Body({"recipients", "subject", "format"}, {}, EmailVal(<<"a@b.co", "not-an-email">>, "pdf")),
   Body({"recipients", "subject", "format"}, {}, EmailVal(<<"a@b.co">>, "txt")),
   Body({"subject"}, {}, EmailVal(<<>>, "html")),
   Body({"recipients", "subject", "format"}, {"recipients"}, EmailVal(<<>>, "html"))}

RegisterVal(email, password) ==
  [email |-> email, password |-> password, fullName |-> "Name", theme |-> "dark",
   id |-> "u2"]

\* the body the client sends for two emails and two passwords, one with
\* keys outside the schema, one without a password, one whose email is
\* not a string
RegisterBodies ==
  {Body({"email", "password", "fullName"}, {}, RegisterVal(e, p)) :
     e \in EmailShaped, p \in {"pw", "other"}}
    \cup {Body({"email", "password", "fullName", "theme", "id"}, {}, RegisterVal("a@b.co", "pw")),
          Body({"email", "fullName"}, {}, RegisterVal("a@b.co", "pw")),
          Body({"email", "password", "fullName"}, {"email"}, RegisterVal("a@b.co", "pw"))}

LoginVal(email, password) == [email |-> email, password |-> password]

LoginBodies ==
  {Body({"email", "password"}, {}, LoginVal(e, p)) :
     e \in EmailShaped \cup {"not-an-email"}, p \in {"pw", "other", ""}}
    \cup {Body({"email"}, {}, LoginVal("a@b.co", "pw")),
          Body({"email", "password"}, {"password"}, LoginVal("a@b.co", "pw"))}

ThemeBodies ==
  {Body({"theme"}, {}, [theme |-> th]) : th \in {"light", "dark", "blue"}}
    \cup {NoBody, Body({"theme"}, {"theme"}, [theme |-> "dark"])}

\* the original names of uploaded files
OriginalNames ==
  {<<"notes", "txt">>, <<"Report", "PDF">>, <<"minutes", "docx">>, <<"notes", "Txt">>,
   <<"photo", "png">>, <<"archive", "txt", "gz">>, <<"README">>}

\* the extensions of the paths processFile is called with: the three
\* supported ones and none
FileExtensions == Extensions \cup {""}

\* what an extractor may read from a file
ExtractedTexts == {<<>>, <<" ", "\n">>, <<"a">>, <<" ", "a", " ", "a", "\n">>}

\* the bodies of interleaved updates: the editor's autosave, the approval,
\* all four keys with other values, a wordCount that is no number
OtherPatchVal ==
  [summaryContent |-> <<"a">>, status |-> "sent", autoSaved |-> TRUE, wordCount |-> 1]

ConcPatchBodies ==
  {Body({"summaryContent", "wordCount", "autoSaved"}, {}, PatchVal("approved")),
   Body({"status"}, {}, PatchVal("approved")),
   Body(PatchKeys, {}, OtherPatchVal),
   Body({"wordCount", "autoSaved"}, {"wordCount"}, PatchVal("approved"))}

ConcEmailBodies ==
  {Body({"recipients", "subject", "format"}, {}, EmailVal(<<"a@b.co">>, "html")),
   Body({"subject"}, {}, EmailVal(<<>>, "html"))}

\* the requests that arrive while others are in flight
ConcRequests ==
  {Pending("update", c, i, b) : c \in Users, i \in Ids, b \in ConcPatchBodies}
    \cup {Pending(route, c, i, NoBody) :
            route \in {"generate", "exportPdf", "exportDocx"}, c \in Users, i \in Ids}
    \cup {Pending("share", c, i, b) : c \in Users, i \in Ids, b \in ConcEmailBodies}

\* the body the client creates a summary with (part_002:129-134)
ClientCreateBody ==
  Body(InsertSummaryRequired \cup {"status"}, {}, CreateVal(<<>>, 0, "draft"))

\* the summaries table after u1 and u2 have each created a summary
TwoSummaries ==
  createSummary(createSummary(<<>>, 1, insertSummarySchema(ClientCreateBody), "u1", 0),
                2, insertSummarySchema(ClientCreateBody), "u2", 0)

\* what the editor's content may become: empty, blank, a word, and words
\* with whitespace before, between and after them
EditorTexts ==
  {<<>>, <<" ">>, <<"a">>, <<" ", "a", "\n", "\n", "a", " ">>}

\* what an external collaborator may do
Throws == [throws |-> TRUE, text |-> <<>>]
Returns(text) == [throws |-> FALSE, text |-> text]
GeneratorOutcomes ==
  {Throws} \cup {Returns(c) : c \in Cores} \cup {Returns(c \o Filler) : c \in Cores}
CallOutcomes == {Throws, Returns(<<>>)}
ConcGeneratorOutcomes == {Throws, Returns(Filler \o <<" ", "a", " ", "a">>)}
ExtractorOutcomes == {Throws} \cup {Returns(t) : t \in ExtractedTexts}

\* ------------------------------------------------------------------------
\* State
\* ------------------------------------------------------------------------
VARIABLES
  summaries,   \* the summaries table: id -> row
  emailLogs,   \* the email_logs table
  nextId,      \* the id the next inserted summary gets
  now,         \* the clock read by new Date() and defaultNow()
  writes,      \* number of requests that changed a table
  last,        \* the request being answered, with its response; Idle if none
  users,       \* the users table: id -> row
  uploads,     \* the upload requests: their temporary files and progress
  inflight,    \* the requests whose handlers run interleaved, await by await
  editor       \* the summary editor of the client with its autosave hook

vars ==
  <<summaries, emailLogs, nextId, now, writes, last, users, uploads, inflight, editor>>

\* the two users the summary routes are called by, as registration stored
\* them
SeededUsers ==
  [u \in Users |->
     [id |-> u, email |-> IF u = "u1" THEN "a@b.co" ELSE "c@d.org",
      password |-> <<"hash", "pw">>, fullName |-> "Name", theme |-> "light",
      createdAt |-> 0]]

\* part_001:43, useAutosave.ts:9-11  the editor component before it is on the
\* page: content is "", the refs of the hook are as useRef makes them, no
\* timer is set, onSave was never called and no PATCH was sent.  timers are
\* the timeouts the browser holds; edits counts the changes of content and
\* numbers the timeouts.
Unmounted ==
  [mounted |-> FALSE, content |-> <<>>, onSave |-> 0,
   isFirstRun |-> TRUE, dataRef |-> <<>>, timeoutRef |-> 0, timers |-> {},
   cleanup |-> FALSE, calls |-> <<>>, sent |-> <<>>, edits |-> 0]

Request(route, caller, id) == [route |-> route, caller |-> caller, id |-> id]

\* no request is being answered
Idle ==
  [req |-> Request("none", "u1", 0),
   resp |-> [status |-> 0, message |-> "", data |-> <<>>],
   calls |-> {}]

Init ==
  /\ summaries = <<>>
  /\ emailLogs = <<>>
  /\ nextId = 1
  /\ now = 0
  /\ writes = 0
  /\ last = Idle
  /\ users = SeededUsers
  /\ uploads = <<>>
  /\ inflight = <<>>
  /\ editor = Unmounted

\* the request req is handled with outcome o
Handle(req, o) ==
  /\ last = Idle
  /\ \/ o.summaries = summaries /\ o.emailLogs = emailLogs
     \/ writes < MaxWrites
  /\ summaries' = o.summaries
  /\ emailLogs' = o.emailLogs
  /\ writes' = IF o.summaries = summaries /\ o.emailLogs = emailLogs
               THEN writes ELSE writes + 1
  /\ last' = [req |-> req, resp |-> o.resp, calls |-> o.calls]
  /\ now' = now
  /\ UNCHANGED <<users, uploads, inflight, editor>>

\* the response reaches the client
Deliver ==
  /\ last # Idle
  /\ last' = Idle
  /\ UNCHANGED <<summaries, emailLogs, nextId, now, writes, users, uploads, inflight, editor>>

\* time passes between two requests
Tick ==
  /\ last = Idle
  /\ now < MaxTime
  /\ now' = now + 1
  /\ UNCHANGED <<summaries, emailLogs, nextId, writes, last, users, uploads, inflight, editor>>

Create ==
  \E caller \in Users, body \in CreateBodies :
    /\ nextId <= MaxSummaries
    /\ LET o == PostSummaries(summaries, emailLogs, caller, body, nextId, now)
       IN  /\ Handle(Request("create", caller, 0), o)
           /\ nextId' = IF o.resp.status = 200 THEN nextId + 1 ELSE nextId

List ==
  \E caller \in Users :
    \E ord \in getUserSummaries(summaries, caller) :
      /\ Handle(Request("list", caller, 0),
                GetSummaries(summaries, emailLogs, caller, ord))
      /\ UNCHANGED nextId

Get ==
  \E caller \in Users, id \in Ids :
    /\ Handle(Request("get", caller, id),
              GetSummaryById(summaries, emailLogs, caller, id))
    /\ UNCHANGED nextId

Update ==
  \E caller \in Users, id \in Ids, body \in PatchBodies :
    /\ Handle(Request("update", caller, id),
              PatchSummary(summaries, emailLogs, caller, id, body, now))
    /\ UNCHANGED nextId

Generate ==
  \E caller \in Users, id \in Ids, ext \in GeneratorOutcomes :
    /\ Handle(Request("generate", caller, id),
              PostGenerate(summaries, emailLogs, caller, id, ext, now))
    /\ UNCHANGED nextId

ExportPdfReq ==
  \E caller \in Users, id \in Ids, ext \in CallOutcomes :
    /\ Handle(Request("exportPdf", caller, id),
              ExportPdf(summaries, emailLogs, caller, id, ext))
    /\ UNCHANGED nextId

ExportDocxReq ==
  \E caller \in Users, id \in Ids, ext \in CallOutcomes :
    /\ Handle(Request("exportDocx", caller, id),
              ExportDocx(summaries, emailLogs, caller, id, ext))
    /\ UNCHANGED nextId

Share ==
  \E caller \in Users, id \in Ids, body \in EmailBodies, ext \in CallOutcomes :
    /\ Handle(Request("share", caller, id),
              PostEmail(summaries, emailLogs, caller, id, body, ext, now))
    /\ UNCHANGED nextId

Next ==
  \/ Tick
  \/ Deliver
  \/ Create
  \/ List
  \/ Get
  \/ Update
  \/ Generate
  \/ ExportPdfReq
  \/ ExportDocxReq
  \/ Share

Spec == Init /\ [][Next]_vars

\* the storage interface as a whole: the requests of the server and, beside
\* them, calls of deleteSummary
Delete ==
  \E caller \in Users, id \in Ids :
    /\ Handle(Request("delete", caller, id),
              DeleteSummary(summaries, emailLogs, caller, id))
    /\ UNCHANGED nextId

StorageNext ==
  \/ Next
  \/ Delete

StorageSpec == Init /\ [][StorageNext]_vars

\* the auth routes, from an empty users table
AuthInit ==
  /\ summaries = <<>>
  /\ emailLogs = <<>>
  /\ nextId = 1
  /\ now = 0
  /\ writes = 0
  /\ last = Idle
  /\ users = <<>>
  /\ uploads = <<>>
  /\ inflight = <<>>
  /\ editor = Unmounted

\* the request req to an auth route is handled with outcome o
AuthHandle(req, o) ==
  /\ last = Idle
  /\ users' = o.users
  /\ last' = [req |-> req, resp |-> o.resp, calls |-> o.calls]
  /\ UNCHANGED <<summaries, emailLogs, nextId, now, writes, uploads, inflight, editor>>

\* the id the users table generates for its next row
FreeUserIds == Users \ DOMAIN users
NextUserId == IF "u1" \in FreeUserIds THEN "u1" ELSE "u2"

Register ==
  \E body \in RegisterBodies :
    LET o == PostRegister(users, body, NextUserId, now)
    IN  /\ o.users = users \/ FreeUserIds # {}
        /\ AuthHandle(Request("register", "anonymous", 0), o)

Login ==
  \E body \in LoginBodies :
    LET o == PostLogin(users, body)
    IN  /\ last = Idle
        /\ AuthHandle(Request("login", "anonymous", 0), o)

Theme ==
  \E caller \in DOMAIN users, body \in ThemeBodies :
    LET o == PatchTheme(users, caller, body)
    IN  AuthHandle(Request("theme", caller, 0), o)

AuthNext ==
  \/ Tick
  \/ Deliver
  \/ Register
  \/ Login
  \/ Theme

AuthSpec == AuthInit /\ [][AuthNext]_vars

\* the :id routes with their handlers interleaved at the awaits, on a
\* store that holds a summary of each user
ConcInit ==
  /\ summaries = TwoSummaries
  /\ emailLogs = <<>>
  /\ nextId = 3
  /\ now = 0
  /\ writes = 0
  /\ last = Idle
  /\ users = SeededUsers
  /\ uploads = <<>>
  /\ inflight = <<>>
  /\ editor = Unmounted

\* a request arrives and its handler runs up to its first storage read
Arrives ==
  /\ Len(inflight) < MaxRequests
  /\ \E r \in ConcRequests :
       inflight' = Append(inflight, ReadStep(summaries, r, writes))
  /\ UNCHANGED <<summaries, emailLogs, nextId, now, writes, last, users, uploads, editor>>

CollaboratorAnswers ==
  \E k \in DOMAIN inflight :
    /\ inflight[k].pc \in {"generate", "render", "send"}
    /\ \E x \in IF inflight[k].pc = "generate" THEN ConcGeneratorOutcomes ELSE CallOutcomes :
         inflight' = [inflight EXCEPT ![k] = CollaboratorStep(inflight[k], x)]
    /\ UNCHANGED <<summaries, emailLogs, nextId, now, writes, last, users, uploads, editor>>

StorageWrites ==
  \E k \in DOMAIN inflight :
    /\ inflight[k].pc = "write"
    /\ summaries' = WriteStep(summaries, inflight[k], now)
    /\ writes' = writes + 1
    /\ inflight' =
         [inflight EXCEPT
            ![k] = [Done(inflight[k], 200, "", <<summaries'[inflight[k].id]>>)
                      EXCEPT !.writeNo = writes + 1]]
    /\ UNCHANGED <<emailLogs, nextId, now, last, users, uploads, editor>>

LogWrites ==
  \E k \in DOMAIN inflight :
    /\ inflight[k].pc = "log"
    /\ emailLogs' = LogStep(emailLogs, inflight[k], now)
    /\ writes' = writes + 1
    /\ inflight' =
         [inflight EXCEPT
            ![k] = [Done(inflight[k], 200, "Email sent successfully", <<>>)
                      EXCEPT !.writeNo = writes + 1]]
    /\ UNCHANGED <<summaries, nextId, now, last, users, uploads, editor>>

ConcNext ==
  \/ Tick
  \/ Arrives
  \/ CollaboratorAnswers
  \/ StorageWrites
  \/ LogWrites

ConcSpec == ConcInit /\ [][ConcNext]_vars

\* the register route with its handlers interleaved between the lookup and
\* the insert, on an empty users table
RegisterArrives ==
  /\ Len(inflight) < MaxRequests
  /\ \E body \in RegisterBodies :
       inflight' = Append(inflight,
                          LookupStep(users, Pending("register", "anonymous", 0, body)))
  /\ UNCHANGED <<summaries, emailLogs, nextId, now, writes, last, users, uploads, editor>>

RegisterInserts ==
  \E k \in DOMAIN inflight :
    LET o == InsertStep(users, inflight[k], NextUserId, now)
    IN  /\ inflight[k].pc = "insert"
        /\ o.users = users \/ FreeUserIds # {}
        /\ users' = o.users
        /\ inflight' = [inflight EXCEPT ![k] = o.req]
        /\ UNCHANGED <<summaries, emailLogs, nextId, now, writes, last, uploads, editor>>

RaceNext ==
  \/ Tick
  \/ RegisterArrives
  \/ RegisterInserts

RaceSpec == AuthInit /\ [][RaceNext]_vars

\* the editor alone: the component mounts, its content changes, it renders
\* again with a new saveContent, time passes, timeouts fire, it unmounts
EditorStep(e) ==
  /\ editor' = e
  /\ UNCHANGED <<summaries, emailLogs, nextId, now, writes, last, users, uploads, inflight>>

\* the first render and the first run of the effect
Mount ==
  /\ editor = Unmounted
  /\ EditorStep(RunEffect([editor EXCEPT !.mounted = TRUE], editor.content, editor.onSave))

\* setContent with another text (part_001:202, and the textarea), and the
\* render it causes, with the same or a new saveContent
Edit ==
  /\ editor.mounted
  /\ editor.edits < MaxEdits
  /\ \E c \in EditorTexts \ {editor.content}, onSave \in {0, 1} :
       EditorStep(Render([editor EXCEPT !.content = c, !.onSave = onSave, !.edits = @ + 1],
                         c, onSave))

\* a render with the same content and a new saveContent (part_001:193: the
\* callback is made anew whenever updateSummaryMutation is another object)
Rerender ==
  /\ editor.mounted
  /\ EditorStep(Render([editor EXCEPT !.onSave = 1 - @], editor.content, 1 - editor.onSave))

\* a second passes
ClockTick ==
  /\ editor.timers # {}
  /\ \A t \in editor.timers : t.left > 0
  /\ EditorStep([editor EXCEPT !.timers = {[t EXCEPT !.left = @ - 1] : t \in @}])

TimerFires ==
  \E t \in editor.timers :
    /\ t.left = 0
    /\ EditorStep(Fire(editor, t))

\* the component leaves the page: React runs the cleanup of the last effect
Unmount ==
  /\ editor.mounted
  /\ EditorStep([(IF editor.cleanup THEN Cleanup(editor) ELSE editor)
                   EXCEPT !.mounted = FALSE])

ClientNext ==
  \/ Mount
  \/ Edit
  \/ Rerender
  \/ ClockTick
  \/ TimerFires
  \/ Unmount

ClientSpec == Init /\ [][ClientNext]_vars

\* the upload route: requests arrive, and each runs processFile from one
\* await to the next while the others do the same
UploadStep(u, f) ==
  /\ uploads' = [uploads EXCEPT ![u] = f]
  /\ UNCHANGED <<summaries, emailLogs, nextId, now, writes, last, users, inflight, editor>>

UploadArrives ==
  /\ Len(uploads) < MaxUploads
  /\ \E f \in {StoredFile(ext) : ext \in FileExtensions} \cup {NoFile}
                \cup {MulterUpload(name) : name \in OriginalNames} :
       uploads' = Append(uploads, f)
  /\ UNCHANGED <<summaries, emailLogs, nextId, now, writes, last, users, inflight, editor>>

ProcessBegins ==
  \E u \in DOMAIN uploads :
    /\ uploads[u].pc = "start"
    /\ UploadStep(u, Begin(uploads[u]))

ExtractorAnswers ==
  \E u \in DOMAIN uploads, x \in ExtractorOutcomes :
    /\ uploads[u].pc = "extract"
    /\ UploadStep(u, Extract(uploads[u], x))

ProcessEnds ==
  \E u \in DOMAIN uploads, unlinkThrows \in BOOLEAN :
    /\ uploads[u].pc = "finally"
    /\ UploadStep(u, Finally(uploads[u], unlinkThrows))

UploadResponds ==
  \E u \in DOMAIN uploads :
    /\ uploads[u].pc \in {"returned", "thrown"}
    /\ UploadStep(u, Respond(uploads[u]))

UploadNext ==
  \/ UploadArrives
  \/ ProcessBegins
  \/ ExtractorAnswers
  \/ ProcessEnds
  \/ UploadResponds

UploadSpec == Init /\ [][UploadNext]_vars

\* ------------------------------------------------------------------------
\* Properties
\* ------------------------------------------------------------------------
IdRoutes == {"get", "update", "generate", "exportPdf", "exportDocx", "share"}

\* the summary named by id is missing or belongs to somebody else
Unowned(id, caller) == id \notin DOMAIN summaries \/ summaries[id].userId # caller
OthersSummary(id, caller) == id \in DOMAIN summaries /\ summaries[id].userId # caller

\* this step answers a request
Answers(route) == last = Idle /\ last' # Idle /\ last'.req.route = route

\* C1: on Get, Update, Generate, Export pdf, Export docx and Share, a
\* request whose id names no summary or a summary of another user is
\* answered 404, leaves both tables as they were and calls neither the
\* generator nor the renderer nor the dispatcher.
C1_UnownedIsNotFound ==
  [][\A route \in IdRoutes :
       Answers(route) /\ Unowned(last'.req.id, last'.req.caller)
         => /\ last'.resp.status = 404
            /\ last'.calls = {}
            /\ summaries' = summaries
            /\ emailLogs' = emailLogs]_vars

C1_Witness ==
  /\ last.req.route = "generate"
  /\ OthersSummary(last.req.id, last.req.caller)
  /\ last.resp.status = 404

\* C2: for every route that takes an id and every body, well-formed or
\* not, the response for the id of another user's summary is the response
\* for an id that names nothing; and every response the caller can get
\* (the list included) is the one they would get if the other users'
\* summaries were not in the store.
OwnRows(S, caller) == [i \in {j \in DOMAIN S : S[j].userId = caller} |-> S[i]]

Responses(S, caller, id) ==
  [get |-> GetSummaryById(S, emailLogs, caller, id).resp,
   update |-> [b \in PatchBodies |-> PatchSummary(S, emailLogs, caller, id, b, now).resp],
   generate |-> [x \in GeneratorOutcomes |->
                   PostGenerate(S, emailLogs, caller, id, x, now).resp],
   exportPdf |-> [x \in CallOutcomes |-> ExportPdf(S, emailLogs, caller, id, x).resp],
   exportDocx |-> [x \in CallOutcomes |-> ExportDocx(S, emailLogs, caller, id, x).resp],
   share |-> [b \in EmailBodies |->
                [x \in CallOutcomes |-> PostEmail(S, emailLogs, caller, id, b, x, now).resp]]]

ListResponses(S, caller) ==
  {GetSummaries(S, emailLogs, caller, ord).resp : ord \in getUserSummaries(S, caller)}

C2_ExistenceNotLeaked ==
  last = Idle =>
    \A caller \in Users :
      /\ ListResponses(summaries, caller) = ListResponses(OwnRows(summaries, caller), caller)
      /\ \A id \in Ids :
           /\ Responses(summaries, caller, id)
                = Responses(OwnRows(summaries, caller), caller, id)
           /\ OthersSummary(id, caller)
                => \A none \in Ids \ DOMAIN summaries :
                     Responses(summaries, caller, id) = Responses(summaries, caller, none)

C2_Witness ==
  /\ last.req.route = "share"
  /\ OthersSummary(last.req.id, last.req.caller)
  /\ last.resp = [status |-> 404, message |-> "Summary not found", data |-> <<>>]

\* C3: a summary that POST /api/summaries persists and returns has
\* status "draft", wordCount 0 and an empty summaryContent.
C3_CreatedIsEmptyDraft ==
  last.req.route = "create" /\ last.resp.status = 200
    => LET row == last.resp.data[1]
       IN  /\ summaries[row.id] = row
           /\ row.status = "draft"
           /\ row.wordCount = 0
           /\ row.summaryContent = <<>>

\* C4: after a successful Generate the stored wordCount is the number of
\* whitespace-separated non-empty tokens of the stored summaryContent.
C4_GeneratedCountIsTokenCount ==
  last.req.route = "generate" /\ last.resp.status = 200
    => LET row == summaries[last.req.id]
       IN  row.wordCount = TokenCount(row.summaryContent)

\* C5: in every state every summary's wordCount is the whitespace-token
\* count of its summaryContent.
C5_CountIsTokenCount ==
  \A id \in DOMAIN summaries :
    summaries[id].wordCount = TokenCount(summaries[id].summaryContent)

\* C6: no request moves a summary's status backwards along
\* draft -> approved -> sent or sets a status outside these three.
Rank(st) ==
  CASE st = "draft" -> 1 [] st = "approved" -> 2 [] st = "sent" -> 3 [] OTHER -> 0

C6_StatusOnlyAdvances ==
  [][\A id \in DOMAIN summaries' :
       /\ summaries'[id].status \in Statuses
       /\ id \in DOMAIN summaries
            => Rank(summaries'[id].status) >= Rank(summaries[id].status)]_vars

\* C7: a successful Generate changes nothing but summaryContent, wordCount
\* and updatedAt of the summary it names, whatever the status of that
\* summary: every other column, every other summary and the email logs
\* are the same after as before.
C7_GenerateFrame ==
  [][Answers("generate") /\ last'.resp.status = 200
       => /\ DOMAIN summaries' = DOMAIN summaries
          /\ \A id \in DOMAIN summaries, c \in Columns :
               id # last'.req.id \/ c \notin {"summaryContent", "wordCount", "updatedAt"}
                 => summaries'[id][c] = summaries[id][c]
          /\ emailLogs' = emailLogs]_vars

C7_Witness ==
  /\ last.req.route = "generate"
  /\ last.resp.status = 200
  /\ summaries[last.req.id].status = "approved"
  /\ Len(summaries[last.req.id].summaryContent) >= MinViableLength

\* C8: when the generator throws, returns no text or returns fewer than 50
\* characters, Generate by the owner answers with an error and leaves the
\* tables (the summary's content, count, status and updatedAt among them)
\* as they were.
GeneratorFails(x) == x.throws \/ Len(x.text) < 50

C8_FailedGenerateChangesNothing ==
  last = Idle =>
    \A caller \in Users, id \in DOMAIN summaries, x \in GeneratorOutcomes :
      summaries[id].userId = caller /\ GeneratorFails(x)
        => LET o == PostGenerate(summaries, emailLogs, caller, id, x, now)
           IN  /\ o.resp.status >= 400
               /\ o.summaries = summaries
               /\ o.emailLogs = emailLogs

C8_Witness ==
  /\ last.req.route = "generate"
  /\ last.resp.status = 500
  /\ last.calls = {"generator"}
  /\ summaries[last.req.id].summaryContent = <<"a", " ", "a">>
  /\ summaries[last.req.id].updatedAt < now

\* C9: an Update by the owner with a body the schema accepts sets the
\* columns among summaryContent, status, autoSaved and wordCount that the
\* body carries to the body's values, sets updatedAt to the time of the
\* request, and leaves every other column, every other summary and the
\* email logs as they were; keys outside the four change nothing.
C9_UpdateFrame ==
  last = Idle =>
    \A caller \in Users, id \in DOMAIN summaries, b \in PatchBodies :
      summaries[id].userId = caller /\ b.bad \cap PatchKeys = {}
        => LET o == PatchSummary(summaries, emailLogs, caller, id, b, now)
               supplied == b.has \cap PatchKeys
           IN  /\ o.resp.status = 200
               /\ DOMAIN o.summaries = DOMAIN summaries
               /\ \A c \in supplied : o.summaries[id][c] = b.val[c]
               /\ o.summaries[id].updatedAt = now
               /\ \A c \in Columns \ (supplied \cup {"updatedAt"}) :
                    o.summaries[id][c] = summaries[id][c]
               /\ \A other \in DOMAIN summaries \ {id} : o.summaries[other] = summaries[other]
               /\ o.emailLogs = emailLogs
               /\ o.resp.data = <<o.summaries[id]>>

C9_Witness ==
  /\ last.req.route = "update"
  /\ last.resp.status = 200
  /\ LET row == summaries[last.req.id]
     IN  /\ row.status = "approved"
         /\ row.summaryContent = <<>>
         /\ row.wordCount = 0
         /\ row.title = "Meeting"
         /\ row.updatedAt > row.createdAt

\* C10: the list a caller gets holds exactly the summaries whose userId is
\* the caller, each once and as stored, in descending order of updatedAt.
C10_ListIsOwnByUpdatedAtDesc ==
  last.req.route = "list"
    => LET rows == last.resp.data
           own == {i \in DOMAIN summaries : summaries[i].userId = last.req.caller}
       IN  /\ last.resp.status = 200
           /\ Len(rows) = Cardinality(own)
           /\ {rows[k].id : k \in DOMAIN rows} = own
           /\ \A k \in DOMAIN rows : rows[k] = summaries[rows[k].id]
           /\ \A j, k \in DOMAIN rows : j < k => rows[j].updatedAt >= rows[k].updatedAt

\* the summary created first was updated after the second was created and
\* comes first
C10_Witness ==
  /\ last.req.route = "list"
  /\ Len(last.resp.data) = 2
  /\ last.resp.data[1].id < last.resp.data[2].id
  /\ last.resp.data[1].updatedAt > last.resp.data[2].updatedAt

\* C11: no state holds an email log whose summaryId names no stored
\* summary: deleteSummary removes the summary and, in the same step, every
\* log that refers to it; and a Get of a deleted id answers 404 for every
\* caller.
C11_DeleteCascades ==
  /\ \A i \in DOMAIN emailLogs : emailLogs[i].summaryId \in DOMAIN summaries
  /\ \A id \in (1..(nextId - 1)) \ DOMAIN summaries, caller \in Users :
       GetSummaryById(summaries, emailLogs, caller, id).resp.status = 404
  /\ last.req.route = "delete" => last.req.id \notin DOMAIN summaries

\* a summary that had been shared was deleted
C11_Witness ==
  /\ last.req.route = "delete"
  /\ last.calls = {"cascade"}
  /\ last.req.id \notin DOMAIN summaries
  /\ emailLogs = <<>>

\* C12: a delete of a summary on behalf of a user who does not own it
\* answers 404 and removes neither the summary nor any of its email logs.
C12_DeleteIsOwnerOnly ==
  last = Idle =>
    \A caller \in Users, id \in DOMAIN summaries :
      summaries[id].userId # caller
        => LET o == DeleteSummary(summaries, emailLogs, caller, id)
           IN  /\ o.resp.status = 404
               /\ o.summaries = summaries
               /\ o.emailLogs = emailLogs

\* the summaries a caller owns
Owned(caller) == {id \in DOMAIN summaries : summaries[id].userId = caller}

\* the body carries recipients, subject and format with values of the
\* right JSON type
SharePresent(b) ==
  /\ {"recipients", "subject", "format"} \subseteq b.has
  /\ b.bad \cap {"recipients", "subject", "format", "ccSelf"} = {}

\* C13: Share by the owner with recipients = [] is answered 400, does not
\* call the dispatcher and creates no email log.
C13_EmptyRecipientsRejected ==
  last = Idle =>
    \A caller \in Users : \A id \in Owned(caller), b \in EmailBodies, x \in CallOutcomes :
      SharePresent(b) /\ b.val.recipients = <<>>
        => LET o == PostEmail(summaries, emailLogs, caller, id, b, x, now)
           IN  /\ o.resp.status = 400
               /\ o.calls = {}
               /\ o.emailLogs = emailLogs

\* C14: Share by the owner with a recipient that is not email-shaped, or
\* with a format outside html, pdf, both, is answered 400 (validation
\* failed) without a call of the dispatcher and without a new email log.
C14_BadRecipientOrFormatRejected ==
  last = Idle =>
    \A caller \in Users : \A id \in Owned(caller), b \in EmailBodies, x \in CallOutcomes :
      /\ SharePresent(b)
      /\ \/ \E i \in DOMAIN b.val.recipients : b.val.recipients[i] \notin EmailShaped
         \/ b.val.format \notin Formats
      => LET o == PostEmail(summaries, emailLogs, caller, id, b, x, now)
         IN  /\ o.resp.status = 400
             /\ o.calls = {}
             /\ o.emailLogs = emailLogs

\* C15: for the caller and the summary of a Share request, whatever the
\* body, a Share for which the dispatcher was called and succeeded appends
\* exactly one email log, with the id of the shared summary, status "sent"
\* and the recipients, subject and format of the request; the email logs
\* change in no other step, so a summary has as many logs as successful
\* Shares; and every log has status "sent".
C15_OneSentLogPerShare ==
  [][/\ Answers("share") =>
          \A b \in EmailBodies, x \in CallOutcomes :
            LET id == last'.req.id
                o == PostEmail(summaries, emailLogs, last'.req.caller, id, b, x, now)
            IN  "dispatcher" \in o.calls /\ ~x.throws
                  => /\ o.resp.status = 200
                     /\ o.emailLogs =
                          Append(emailLogs,
                                 [summaryId |-> id, recipients |-> b.val.recipients,
                                  subject |-> b.val.subject, format |-> b.val.format,
                                  status |-> "sent", sentAt |-> now])
     /\ emailLogs' # emailLogs <=> Answers("share") /\ last'.resp.status = 200
     /\ emailLogs' # emailLogs
          => /\ Len(emailLogs') = Len(emailLogs) + 1
             /\ SubSeq(emailLogs', 1, Len(emailLogs)) = emailLogs
             /\ emailLogs'[Len(emailLogs')].summaryId = last'.req.id
     /\ \A i \in DOMAIN emailLogs' : emailLogs'[i].status = "sent"]_vars

\* a summary was shared twice, once to two recipients, and has two logs
C15_Witness ==
  /\ last.req.route = "share"
  /\ last.resp.status = 200
  /\ Len(emailLogs) = 2
  /\ emailLogs[1].summaryId = last.req.id
  /\ emailLogs[2].summaryId = last.req.id
  /\ \E i \in 1..2 : emailLogs[i].recipients = <<"a@b.co", "c@d.org">>

\* C16: a Share by the owner whose dispatcher fails is answered with an
\* error and leaves the email logs as they were; no log has status
\* "failed" or "pending".
C16_FailedShareLogsNothing ==
  /\ \A i \in DOMAIN emailLogs : emailLogs[i].status \notin {"failed", "pending"}
  /\ last = Idle =>
       \A caller \in Users : \A id \in Owned(caller), b \in EmailBodies :
         LET o == PostEmail(summaries, emailLogs, caller, id, b, Throws, now)
         IN  /\ o.resp.status >= 400
             /\ o.emailLogs = emailLogs

\* the dispatcher failed after an earlier Share had been logged
C16_Witness ==
  /\ last.req.route = "share"
  /\ last.resp.status = 500
  /\ last.calls = {"dispatcher"}
  /\ Len(emailLogs) = 1

\* C17: Export and Share by the owner leave the summaries as they were,
\* and what they answer, call and log does not depend on the status of
\* the summary: it is the same for draft, approved and sent.
C17_ExportShareIgnoreStatus ==
  last = Idle =>
    \A caller \in Users : \A id \in Owned(caller), st \in Statuses, x \in CallOutcomes :
      LET S2 == [summaries EXCEPT ![id].status = st]
          pdf == ExportPdf(summaries, emailLogs, caller, id, x)
          pdf2 == ExportPdf(S2, emailLogs, caller, id, x)
          docx == ExportDocx(summaries, emailLogs, caller, id, x)
          docx2 == ExportDocx(S2, emailLogs, caller, id, x)
      IN  /\ pdf.summaries = summaries /\ pdf.emailLogs = emailLogs
          /\ docx.summaries = summaries /\ docx.emailLogs = emailLogs
          /\ pdf2.resp = pdf.resp /\ pdf2.calls = pdf.calls /\ pdf2.summaries = S2
          /\ docx2.resp = docx.resp /\ docx2.calls = docx.calls /\ docx2.summaries = S2
          /\ \A b \in EmailBodies :
               LET e == PostEmail(summaries, emailLogs, caller, id, b, x, now)
                   e2 == PostEmail(S2, emailLogs, caller, id, b, x, now)
               IN  /\ e.summaries = summaries
                   /\ e2.summaries = S2
                   /\ e2.resp = e.resp
                   /\ e2.calls = e.calls
                   /\ e2.emailLogs = e.emailLogs

\* an approved summary was mailed and is still approved
C17_Witness ==
  /\ last.req.route = "share"
  /\ last.resp.status = 200
  /\ summaries[last.req.id].status = "approved"
  /\ Len(emailLogs) = 1
  /\ emailLogs[1].summaryId = last.req.id

\* the body carries the three strings of a registration
RegisterPresent(b) == {"email", "password", "fullName"} \subseteq b.has /\ b.bad = {}

EmailTaken(email) == \E i \in DOMAIN users : users[i].email = email

\* C18: a register request with an email of a stored user is answered
\* 409 with no user and no token and leaves the users table as it was; a
\* register request with the three strings and an unused email adds
\* exactly one user, with that email and name, and answers 200 with that
\* user and a token for it.
C18_RegisterConflictOrCreate ==
  last = Idle =>
    \A b \in RegisterBodies :
      RegisterPresent(b) /\ (EmailTaken(b.val.email) \/ FreeUserIds # {})
        => LET o == PostRegister(users, b, NextUserId, now)
           IN  IF EmailTaken(b.val.email)
               THEN /\ o.resp.status = 409
                    /\ o.resp.data = <<>>
                    /\ o.users = users
               ELSE /\ o.resp.status = 200
                    /\ DOMAIN o.users = DOMAIN users \cup {NextUserId}
                    /\ \A i \in DOMAIN users : o.users[i] = users[i]
                    /\ o.users[NextUserId].email = b.val.email
                    /\ o.users[NextUserId].fullName = b.val.fullName
                    /\ Len(o.resp.data) = 1
                    /\ o.resp.data[1].user.id = NextUserId
                    /\ o.resp.data[1].user.email = b.val.email
                    /\ o.resp.data[1].token = generateToken(NextUserId)

\* a second registration with the email of the first was refused
C18_Witness ==
  /\ last.req.route = "register"
  /\ last.resp.status = 409
  /\ DOMAIN users = {"u1"}
  /\ users["u1"].email = "a@b.co"

\* the body lacks a key the route requires, or carries a value of the
\* wrong type or outside the values the route takes
Malformed(b, required, optional) ==
  ~(required \subseteq b.has) \/ b.bad \cap (required \cup optional) # {}

\* C19: register, login, theme, create summary, update summary and share
\* answer a malformed or incomplete body with status 400 and leave the
\* users, summaries and email logs as they were.
C19_MalformedBodyIs400 ==
  last = Idle =>
    /\ \A b \in RegisterBodies :
         Malformed(b, {"email", "password", "fullName"}, {})
           => LET o == PostRegister(users, b, NextUserId, now)
              IN  o.resp.status = 400 /\ o.users = users
    /\ \A b \in LoginBodies :
         \/ Malformed(b, {"email", "password"}, {})
         \/ b.val.email \notin EmailShaped
         \/ b.val.password = ""
         => LET o == PostLogin(users, b)
            IN  o.resp.status = 400 /\ o.users = users
    /\ \A caller \in DOMAIN users, b \in ThemeBodies :
         Malformed(b, {"theme"}, {}) \/ b.val.theme \notin Themes
           => LET o == PatchTheme(users, caller, b)
              IN  o.resp.status = 400 /\ o.users = users
    /\ \A caller \in Users, b \in CreateBodies :
         Malformed(b, InsertSummaryRequired, InsertSummaryOptional)
           => LET o == PostSummaries(summaries, emailLogs, caller, b, nextId, now)
              IN  /\ o.resp.status = 400
                  /\ o.summaries = summaries /\ o.emailLogs = emailLogs
    /\ \A caller \in Users : \A id \in Owned(caller) :
         /\ \A b \in PatchBodies :
              Malformed(b, {}, PatchKeys)
                => LET o == PatchSummary(summaries, emailLogs, caller, id, b, now)
                   IN  /\ o.resp.status = 400
                       /\ o.summaries = summaries /\ o.emailLogs = emailLogs
         /\ \A b \in EmailBodies, x \in CallOutcomes :
              \/ Malformed(b, {"recipients", "subject", "format"}, {"ccSelf"})
              \/ \E i \in DOMAIN b.val.recipients : b.val.recipients[i] \notin EmailShaped
              \/ b.val.format \notin Formats
              => LET o == PostEmail(summaries, emailLogs, caller, id, b, x, now)
                 IN  /\ o.resp.status = 400
                     /\ o.summaries = summaries /\ o.emailLogs = emailLogs

\* processFile has returned or thrown for this upload
Processed(f) == f.stored /\ f.pc \in {"returned", "thrown", "responded"}

ThroughRoute(f) == "name" \in DOMAIN f

\* the original name ends in .txt, .pdf or .docx in any letter case
SupportedName(name) ==
  Len(name) > 1 /\ ToLowerCase(name[Len(name)]) \in {"txt", "pdf", "docx"}

\* C21: an upload through the route of a file whose original name ends in
\* .txt, .pdf or .docx (any letter case) is stored and processed, and is
\* answered with the trimmed text its extractor read -- or, when the
\* extractor failed or read only blanks, with that error; a file with any
\* other name is neither stored nor processed.
C21_SupportedUploadYieldsText ==
  \A u \in DOMAIN uploads :
    LET f == uploads[u]
    IN  ThroughRoute(f) =>
          IF SupportedName(f.name)
          THEN /\ f.stored
               /\ f.pc = "responded" =>
                    \/ f.error = "" /\ Len(f.text) > 0
                    \/ f.error \in {"PDF processing failed", "DOCX processing failed",
                                     "read failed", "No text content extracted from file"}
          ELSE ~f.stored /\ f.pc = "responded" /\ f.text = <<>>

\* the summaries keep their owners in the outcome o
OwnersKept(o) ==
  \A i \in DOMAIN summaries :
    i \in DOMAIN o.summaries /\ o.summaries[i].userId = summaries[i].userId

\* C22: the summary a Create request makes has the userId of the caller,
\* whatever the body carries (a userId key included), and no request of
\* any user, whatever its body, changes the userId of a stored summary.
C22_OwnerIsCreatorForever ==
  last = Idle =>
    /\ nextId <= MaxSummaries =>
         \A caller \in Users, b \in CreateBodies :
           LET o == PostSummaries(summaries, emailLogs, caller, b, nextId, now)
           IN  /\ OwnersKept(o)
               /\ o.resp.status = 200 =>
                    /\ o.summaries[nextId].userId = caller
                    /\ o.resp.data[1].userId = caller
    /\ \A caller \in Users, id \in Ids :
         /\ \A b \in PatchBodies :
              OwnersKept(PatchSummary(summaries, emailLogs, caller, id, b, now))
         /\ \A x \in GeneratorOutcomes :
              OwnersKept(PostGenerate(summaries, emailLogs, caller, id, x, now))
         /\ \A x \in CallOutcomes :
              /\ OwnersKept(ExportPdf(summaries, emailLogs, caller, id, x))
              /\ OwnersKept(ExportDocx(summaries, emailLogs, caller, id, x))
              /\ \A b \in EmailBodies :
                   OwnersKept(PostEmail(summaries, emailLogs, caller, id, b, x, now))
         /\ OwnersKept(GetSummaryById(summaries, emailLogs, caller, id))

\* u1 created a summary with a body that names u2 as userId, then updated
\* it with a body that names u2 as userId: the summary is u1's
C22_Witness ==
  /\ last.req.route = "update"
  /\ last.req.caller = "u1"
  /\ last.resp.status = 200
  /\ summaries[last.req.id].userId = "u1"
  /\ summaries[last.req.id].wordCount = 7
  /\ summaries[last.req.id].status = "approved"

\* C23: Create answers a body whose originalContent or prompt is the empty
\* string with 400 and stores no summary.
C23_BlankTranscriptOrPromptRejected ==
  last = Idle /\ nextId <= MaxSummaries =>
    \A caller \in Users, b \in CreateBodies :
      /\ InsertSummaryRequired \subseteq b.has
      /\ b.bad = {}
      /\ b.val.originalContent = "" \/ b.val.prompt = ""
      => LET o == PostSummaries(summaries, emailLogs, caller, b, nextId, now)
         IN  o.resp.status = 400 /\ o.summaries = summaries

\* ------------------------------------------------------------------------
\* Interleaved requests (ConcSpec)
\* ------------------------------------------------------------------------
\* the requests in flight that are well-formed updates of a summary by its owner
OwnerUpdates ==
  {k \in DOMAIN inflight :
     /\ inflight[k].route = "update"
     /\ inflight[k].id \in DOMAIN summaries
     /\ summaries[inflight[k].id].userId = inflight[k].caller
     /\ PatchSchema(inflight[k].body).ok}

\* the requests that have written field f of summary id
Suppliers(id, f) ==
  {k \in DOMAIN inflight :
     /\ inflight[k].id = id
     /\ inflight[k].route \in {"update", "generate"}
     /\ inflight[k].writeNo > 0
     /\ f \in Updates(inflight[k]).has}

\* the one of them whose storage write was applied last
LastSupplier(id, f) ==
  CHOOSE k \in Suppliers(id, f) :
    \A m \in Suppliers(id, f) : inflight[m].writeNo <= inflight[k].writeNo

\* two updates whose handlers overlapped: each read before the other wrote
Overlapping(j, k) ==
  /\ j # k
  /\ inflight[j].id = inflight[k].id
  /\ inflight[j].pc = "done" /\ inflight[k].pc = "done"
  /\ inflight[j].readAt < inflight[k].writeNo
  /\ inflight[k].readAt < inflight[j].writeNo

\* C24: of two concurrent updates of a summary by its owner both answer 200,
\* whatever the order of their reads and writes, and every field holds the
\* value of the request that wrote it last among those that supplied it
C24_LastWriteWins ==
  \A j \in OwnerUpdates, k \in OwnerUpdates :
    (j # k /\ inflight[j].id = inflight[k].id
       /\ inflight[j].pc = "done" /\ inflight[k].pc = "done") =>
      /\ inflight[j].resp.status = 200
      /\ inflight[k].resp.status = 200
      /\ \A f \in PatchKeys :
           Suppliers(inflight[j].id, f) # {} =>
             summaries[inflight[j].id][f] =
               Updates(inflight[LastSupplier(inflight[j].id, f)]).val[f]

\* two overlapping updates by the owner: both supplied status with different
\* values, only the first writer supplied summaryContent
C24_Witness ==
  \E j \in OwnerUpdates, k \in OwnerUpdates :
    /\ Overlapping(j, k)
    /\ inflight[j].writeNo < inflight[k].writeNo
    /\ inflight[j].body.has = PatchKeys
    /\ inflight[k].body.has = {"status"}
    /\ inflight[j].body.val.status # inflight[k].body.val.status
    /\ summaries[inflight[j].id].status = inflight[k].body.val.status
    /\ summaries[inflight[j].id].summaryContent = inflight[j].body.val.summaryContent


\* the requests in flight whose handler takes the step
Stepped ==
  {k \in DOMAIN inflight' : k \notin DOMAIN inflight \/ inflight'[k] # inflight[k]}

LogsOf(L, id) == SelectSeq(L, LAMBDA l : l.summaryId = id)

\* C27: a step of the handler of an update, generate, export or share
\* request on one summary leaves every other summary and the email logs of
\* every other summary as they were, whatever else is in flight
C27_OtherSummariesUntouched ==
  [][\A k \in Stepped :
       \A i \in Ids \ {inflight'[k].id} :
         /\ getSummary(summaries', i) = getSummary(summaries, i)
         /\ LogsOf(emailLogs', i) = LogsOf(emailLogs, i)]_vars

\* a write to summary 1 and a share of summary 2 ran interleaved: each was
\* read before the other was written, summary 2 is as created and has the
\* only log
C27_Witness ==
  \E j \in DOMAIN inflight, k \in DOMAIN inflight :
    /\ inflight[j].id = 1 /\ inflight[k].id = 2
    /\ inflight[j].route \in {"update", "generate"} /\ inflight[k].route = "share"
    /\ inflight[j].writeNo > 0 /\ inflight[k].writeNo > 0
    /\ inflight[j].readAt < inflight[k].writeNo
    /\ inflight[k].readAt < inflight[j].writeNo
    /\ summaries[1].summaryContent # TwoSummaries[1].summaryContent
    /\ [summaries[2] EXCEPT !.updatedAt = 0] = TwoSummaries[2]
    /\ Len(LogsOf(emailLogs, 2)) = 1 /\ LogsOf(emailLogs, 1) = <<>>


\* update u was applied between the read and the write of generate g, and
\* nothing else wrote to the summary after u
AppliedBetween(u, g) ==
  /\ u \in OwnerUpdates
  /\ inflight[g].route = "generate"
  /\ inflight[g].id = inflight[u].id
  /\ inflight[g].writeNo > 0
  /\ inflight[g].readAt < inflight[u].writeNo
  /\ inflight[u].writeNo < inflight[g].writeNo
  /\ \A m \in DOMAIN inflight \ {u, g} :
       inflight[m].id = inflight[g].id => inflight[m].writeNo < inflight[u].writeNo

\* C29: when an update by the owner is applied between the read and the
\* write of a generate request, the summary afterwards has the status and
\* autoSaved the update supplied and the generated text with its word count
C29_GenerateKeepsInterleavedFlags ==
  \A u \in DOMAIN inflight, g \in DOMAIN inflight :
    AppliedBetween(u, g) =>
      /\ \A f \in {"status", "autoSaved"} \cap inflight[u].body.has :
           summaries[inflight[g].id][f] = inflight[u].body.val[f]
      /\ summaries[inflight[g].id].summaryContent = inflight[g].text
      /\ summaries[inflight[g].id].wordCount = Len(SplitChar(inflight[g].text, " "))

\* the interleaved update supplied all four fields, each different from what
\* generate read and from what generate wrote
C29_Witness ==
  \E u \in DOMAIN inflight, g \in DOMAIN inflight :
    /\ AppliedBetween(u, g)
    /\ inflight[u].body.has = PatchKeys
    /\ inflight[u].body.val.status # inflight[g].snapshot[1].status
    /\ inflight[u].body.val.autoSaved # inflight[g].snapshot[1].autoSaved
    /\ inflight[u].body.val.summaryContent # inflight[g].text
    /\ inflight[u].body.val.wordCount # summaries[inflight[g].id].wordCount
    /\ summaries[inflight[g].id].status = inflight[u].body.val.status
    /\ summaries[inflight[g].id].autoSaved = inflight[u].body.val.autoSaved


\* ------------------------------------------------------------------------
\* Interleaved registrations (RaceSpec)
\* ------------------------------------------------------------------------
RowsWith(email) == {i \in DOMAIN users : users[i].email = email}

\* the register requests with this email that were answered a user and a token
Registered(email) ==
  {k \in DOMAIN inflight :
     /\ inflight[k].body.val.email = email
     /\ inflight[k].pc = "done"
     /\ inflight[k].resp.data # <<>>}

\* C28: however register requests with one email interleave their lookups
\* and inserts, the users table never holds two rows with that email and at
\* most one of the requests is answered a user and a token
C28_OneRowPerEmail ==
  \A email \in EmailShaped :
    /\ Cardinality(RowsWith(email)) <= 1
    /\ Cardinality(Registered(email)) <= 1

\* two requests with one email both passed the lookup before either
\* inserted: one was answered the user, the other failed at the insert
C28_Witness ==
  \E j \in DOMAIN inflight, k \in DOMAIN inflight :
    /\ j # k
    /\ inflight[j].body.val.email = inflight[k].body.val.email
    /\ inflight[j].resp.status = 200
    /\ inflight[k].resp.status = 500
    /\ Cardinality(RowsWith(inflight[j].body.val.email)) = 1


\* ------------------------------------------------------------------------
\* The editor's autosave (ClientSpec)
\* ------------------------------------------------------------------------
\* C25: the first render sets no timeout and calls nothing; a render with
\* changed content leaves exactly one timeout, set by this render for the
\* whole delay with the new content; there is never more than one timeout;
\* and a call of onSave passes the content of the latest change
C25_Debounce ==
  [][/\ (~editor.mounted /\ editor'.mounted) =>
          editor'.timers = {} /\ editor'.calls = <<>>
     /\ (editor.mounted /\ editor'.mounted /\ editor'.content # editor.content) =>
          editor'.timers = {[id |-> editor'.edits, data |-> editor'.content,
                             onSave |-> editor'.onSave, left |-> AutosaveDelay]}
     /\ Cardinality(editor'.timers) <= 1
     /\ editor'.calls # editor.calls =>
          /\ editor'.calls[Len(editor'.calls)].data = editor.content
          /\ editor'.calls[Len(editor'.calls)].id = editor.edits]_vars

\* the content changed twice and the timeout of the first change was
\* cleared: the only call of onSave so far passed the content of the second
C25_Witness ==
  /\ editor.mounted
  /\ editor.edits = 2
  /\ Len(editor.calls) = 1
  /\ editor.calls[1].id = 2
  /\ editor.calls[1].data = editor.content
  /\ editor.calls[1].onSave = editor.onSave


\* the latest change of the content has been passed to onSave
LatestChangeSaved == \E i \in DOMAIN editor.calls : editor.calls[i].id = editor.edits

\* C26: while the editor is mounted, a change of the content that has not
\* been passed to onSave has its timeout pending, so that onSave is called
\* with it once the delay has passed; onSave is called by timeouts only and
\* only a change of the content sets one, so a state without that timeout
\* is one from which the content, staying as it is, is never saved
C26_UnsavedChangeHasTimer ==
  (editor.mounted /\ editor.edits > 0 /\ ~LatestChangeSaved) =>
    \E t \in editor.timers : t.id = editor.edits /\ t.data = editor.content

====
